---------------------------- MODULE Spec2Model ----------------------------
(***************************************************************************)
(* Duration estimation service of the AI planner backend                  *)
(* (backend/app/services/llm.py) and the settings it reads.                *)
(*                                                                         *)
(* Python strings are sequences of one-character strings, so that          *)
(* str.lower(), str.split(), int(str), float(str) and the substring test   *)
(* `kw in s` are computed character by character.  Python values are       *)
(* tagged records.  Floats are carried at a resolution of one tenth        *)
(* (0.6 is 6 tenths), together with nan and the two infinities.            *)
(***************************************************************************)
EXTENDS Integers, Sequences, FiniteSets, TLC

(***************************************************************************)
(* Bounds of the model.                                                    *)
(***************************************************************************)
\* largest number of filler words appended to a description
MaxPad == 9
\* number of filler words of a long description
LongPad == 49
\* number of calls of the estimator suspended beside the running one
MaxParked == 2
\* largest count kept of the calls that fell back to the heuristic
MaxFailures == 2
\* number of tasks ever created
MaxTasks == 1
\* largest number of history rows of one task
MaxHistory == 2
\* number of calls of register
MaxRegistrations == 3

(***************************************************************************)
(* State.                                                                  *)
(***************************************************************************)
VARIABLES
  OPENAI_API_KEY,    \* settings.OPENAI_API_KEY
  task_description,  \* the argument of the call
  pc,                \* "idle", "awaiting" (at the await), "returned", "raised"
  result,            \* the DurationEstimateResponse returned
  path,              \* the return statement taken: "no_key" (line 51),
                     \* "model" (line 75), "fallback" (line 84)
  error,             \* the exception raised inside the try block, if any
  requests,          \* requests sent to the external model by this call
  outcome,           \* what the awaited request delivered
  seen,              \* an earlier run of the heuristic: its argument and value
  failures,          \* calls so far that fell back after a failure
  parked,            \* the calls suspended at their await, beside the
                     \* running one
  tasks,             \* the rows of table tasks, by id
  history,           \* the rows of table task_history, by task id
  next_task_id,      \* the ids handed out so far (uuid4 never repeats)
  request,           \* the HTTP request whose handler waits for the estimator
  response,          \* the latest HTTP response
  users,             \* the committed rows of table users
  registrations      \* the calls of register: where each stands, its email
                     \* and its answer

vars ==
  <<OPENAI_API_KEY, task_description, pc, result, path, error, requests,
    outcome, seen, failures, parked, tasks, history, next_task_id, request,
    response, users, registrations>>

\* the state of registration
auth_vars == <<users, registrations>>

\* the state of the task API and of registration
api_vars ==
  <<tasks, history, next_task_id, request, response, users, registrations>>

(***************************************************************************)
(* Python values.                                                          *)
(***************************************************************************)
PyNone == [t |-> "null"]
PyInt(n) == [t |-> "int", n |-> n]
PyBool(b) == [t |-> "bool", b |-> b]
PyFloat(x) == [t |-> "float", tenths |-> x]
PyNaN == [t |-> "nan"]
PyInf(sign) == [t |-> "inf", sign |-> sign]
PyStr(s) == [t |-> "str", s |-> s]
PyList == [t |-> "list"]
\* a key that is absent from a dict
Missing == [t |-> "missing"]

IsFloat(x) == x.t \in {"float", "nan", "inf"}

\* the outcome of an expression: a value, or an exception of class exc
Ok(v) == [ok |-> TRUE, v |-> v]
Raised(exc) == [ok |-> FALSE, exc |-> exc]

(***************************************************************************)
(* Character helpers: str.lower(), str.split(), str.strip().               *)
(***************************************************************************)
UpperCase ==
  <<"A","B","C","D","E","F","G","H","I","J","K","L","M",
    "N","O","P","Q","R","S","T","U","V","W","X","Y","Z">>

LowerCase ==
  <<"a","b","c","d","e","f","g","h","i","j","k","l","m",
    "n","o","p","q","r","s","t","u","v","w","x","y","z">>

Digits == <<"0","1","2","3","4","5","6","7","8","9">>

\* the characters str.split() and str.strip() treat as blank
Whitespace == {" ", "\t", "\n"}

LowerChar(c) ==
  IF \E i \in 1..Len(UpperCase) : UpperCase[i] = c
  THEN LowerCase[CHOOSE i \in 1..Len(UpperCase) : UpperCase[i] = c]
  ELSE c

\* s.lower()
lower(s) == [i \in 1..Len(s) |-> LowerChar(s[i])]

\* len(s.split()): the number of maximal runs of non-blank characters
word_count_of(s) ==
  Cardinality({i \in 1..Len(s) :
                 /\ s[i] \notin Whitespace
                 /\ (i = 1 \/ s[i-1] \in Whitespace)})

\* kw in s
\* kw as a whole word of s
contains_whole_word(kw, s) ==
  \E i \in 1..(Len(s) - Len(kw) + 1) :
    /\ SubSeq(s, i, i + Len(kw) - 1) = kw
    /\ i = 1 \/ s[i - 1] \in Whitespace
    /\ i + Len(kw) - 1 = Len(s) \/ s[i + Len(kw)] \in Whitespace

\* kw in s: kw occurs in s as a run of adjacent characters
contains(kw, s) ==
  \E i \in 1..(Len(s) - Len(kw) + 1) : SubSeq(s, i, i + Len(kw) - 1) = kw

\* s.strip()
strip(s) ==
  LET solid == {i \in 1..Len(s) : s[i] \notin Whitespace}
  IN  IF solid = {} THEN <<>>
      ELSE SubSeq(s, CHOOSE i \in solid : \A j \in solid : i <= j,
                     CHOOSE i \in solid : \A j \in solid : i >= j)

\* min(a, b) and max(a, b) of Python on integers: the first argument is kept
\* unless the second is strictly smaller (larger)
py_min(a, b) == IF b < a THEN b ELSE a
py_max(a, b) == IF b > a THEN b ELSE a

(***************************************************************************)
(* estimate_duration_heuristic                                             *)
(***************************************************************************)
\* the list with the clean/tidy rule in the place of the plan/schedule rule
patterns_clean_before_plan ==
  <<
    [keywords |-> <<<<"m","e","e","t","i","n","g">>, <<"c","a","l","l">>, <<"s","t","a","n","d","u","p">>, <<"s","y","n","c">>, <<"i","n","t","e","r","v","i","e","w">>>>,
     duration |-> 30],
    [keywords |-> <<<<"r","e","v","i","e","w">>, <<"c","h","e","c","k">>, <<"a","p","p","r","o","v","e">>, <<"f","e","e","d","b","a","c","k">>>>,
     duration |-> 20],
    [keywords |-> <<<<"e","m","a","i","l">>, <<"r","e","p","l","y">>, <<"r","e","s","p","o","n","d">>, <<"m","e","s","s","a","g","e">>>>,
     duration |-> 15],
    [keywords |-> <<<<"q","u","i","c","k">>, <<"b","r","i","e","f">>, <<"s","h","o","r","t">>, <<"s","i","m","p","l","e">>>>,
     duration |-> 10],
    [keywords |-> <<<<"w","r","i","t","e">>, <<"d","r","a","f","t">>, <<"d","o","c","u","m","e","n","t">>, <<"r","e","p","o","r","t">>, <<"p","r","o","p","o","s","a","l">>>>,
     duration |-> 60],
    [keywords |-> <<<<"r","e","s","e","a","r","c","h">>, <<"i","n","v","e","s","t","i","g","a","t","e">>, <<"a","n","a","l","y","z","e">>, <<"e","x","p","l","o","r","e">>>>,
     duration |-> 90],
    [keywords |-> <<<<"d","e","s","i","g","n">>, <<"c","r","e","a","t","e">>, <<"b","u","i","l","d">>, <<"d","e","v","e","l","o","p">>, <<"i","m","p","l","e","m","e","n","t">>>>,
     duration |-> 120],
    [keywords |-> <<<<"d","e","e","p">>, <<"t","h","o","r","o","u","g","h">>, <<"c","o","m","p","r","e","h","e","n","s","i","v","e">>, <<"d","e","t","a","i","l","e","d">>>>,
     duration |-> 90],
    [keywords |-> <<<<"w","o","r","k","o","u","t">>, <<"g","y","m">>, <<"e","x","e","r","c","i","s","e">>, <<"r","u","n">>, <<"y","o","g","a">>>>,
     duration |-> 45],
    [keywords |-> <<<<"l","u","n","c","h">>, <<"d","i","n","n","e","r">>, <<"b","r","e","a","k","f","a","s","t">>, <<"b","r","e","a","k">>>>,
     duration |-> 30],
    [keywords |-> <<<<"l","e","a","r","n">>, <<"s","t","u","d","y">>, <<"c","o","u","r","s","e">>, <<"t","r","a","i","n","i","n","g">>, <<"t","u","t","o","r","i","a","l">>>>,
     duration |-> 60],
    [keywords |-> <<<<"c","l","e","a","n">>, <<"t","i","d","y">>, <<"o","r","g","a","n","i","z","e">>, <<"d","e","c","l","u","t","t","e","r">>>>,
     duration |-> 30],
    [keywords |-> <<<<"f","i","x">>, <<"d","e","b","u","g">>, <<"t","r","o","u","b","l","e","s","h","o","o","t">>, <<"r","e","s","o","l","v","e">>>>,
     duration |-> 45],
    [keywords |-> <<<<"p","l","a","n">>, <<"s","c","h","e","d","u","l","e">>, <<"o","r","g","a","n","i","z","e">>, <<"p","r","e","p","a","r","e">>>>,
     duration |-> 25],
    [keywords |-> <<<<"r","e","a","d">>, <<"b","o","o","k">>, <<"a","r","t","i","c","l","e">>, <<"p","a","p","e","r">>>>,
     duration |-> 30],
    [keywords |-> <<<<"t","e","s","t">>, <<"t","e","s","t","i","n","g">>, <<"q","a">>, <<"v","e","r","i","f","y">>>>,
     duration |-> 40],
    [keywords |-> <<<<"d","e","p","l","o","y">>, <<"r","e","l","e","a","s","e">>, <<"p","u","b","l","i","s","h">>, <<"l","a","u","n","c","h">>>>,
     duration |-> 30]
  >>

\* lines 95-113: the keyword lists and their base durations, in order
patterns ==
  <<
    [keywords |-> <<<<"m","e","e","t","i","n","g">>, <<"c","a","l","l">>, <<"s","t","a","n","d","u","p">>, <<"s","y","n","c">>, <<"i","n","t","e","r","v","i","e","w">>>>,
     duration |-> 30],
    [keywords |-> <<<<"r","e","v","i","e","w">>, <<"c","h","e","c","k">>, <<"a","p","p","r","o","v","e">>, <<"f","e","e","d","b","a","c","k">>>>,
     duration |-> 20],
    [keywords |-> <<<<"e","m","a","i","l">>, <<"r","e","p","l","y">>, <<"r","e","s","p","o","n","d">>, <<"m","e","s","s","a","g","e">>>>,
     duration |-> 15],
    [keywords |-> <<<<"q","u","i","c","k">>, <<"b","r","i","e","f">>, <<"s","h","o","r","t">>, <<"s","i","m","p","l","e">>>>,
     duration |-> 10],
    [keywords |-> <<<<"w","r","i","t","e">>, <<"d","r","a","f","t">>, <<"d","o","c","u","m","e","n","t">>, <<"r","e","p","o","r","t">>, <<"p","r","o","p","o","s","a","l">>>>,
     duration |-> 60],
    [keywords |-> <<<<"r","e","s","e","a","r","c","h">>, <<"i","n","v","e","s","t","i","g","a","t","e">>, <<"a","n","a","l","y","z","e">>, <<"e","x","p","l","o","r","e">>>>,
     duration |-> 90],
    [keywords |-> <<<<"d","e","s","i","g","n">>, <<"c","r","e","a","t","e">>, <<"b","u","i","l","d">>, <<"d","e","v","e","l","o","p">>, <<"i","m","p","l","e","m","e","n","t">>>>,
     duration |-> 120],
    [keywords |-> <<<<"d","e","e","p">>, <<"t","h","o","r","o","u","g","h">>, <<"c","o","m","p","r","e","h","e","n","s","i","v","e">>, <<"d","e","t","a","i","l","e","d">>>>,
     duration |-> 90],
    [keywords |-> <<<<"w","o","r","k","o","u","t">>, <<"g","y","m">>, <<"e","x","e","r","c","i","s","e">>, <<"r","u","n">>, <<"y","o","g","a">>>>,
     duration |-> 45],
    [keywords |-> <<<<"l","u","n","c","h">>, <<"d","i","n","n","e","r">>, <<"b","r","e","a","k","f","a","s","t">>, <<"b","r","e","a","k">>>>,
     duration |-> 30],
    [keywords |-> <<<<"l","e","a","r","n">>, <<"s","t","u","d","y">>, <<"c","o","u","r","s","e">>, <<"t","r","a","i","n","i","n","g">>, <<"t","u","t","o","r","i","a","l">>>>,
     duration |-> 60],
    [keywords |-> <<<<"p","l","a","n">>, <<"s","c","h","e","d","u","l","e">>, <<"o","r","g","a","n","i","z","e">>, <<"p","r","e","p","a","r","e">>>>,
     duration |-> 25],
    [keywords |-> <<<<"f","i","x">>, <<"d","e","b","u","g">>, <<"t","r","o","u","b","l","e","s","h","o","o","t">>, <<"r","e","s","o","l","v","e">>>>,
     duration |-> 45],
    [keywords |-> <<<<"c","l","e","a","n">>, <<"t","i","d","y">>, <<"o","r","g","a","n","i","z","e">>, <<"d","e","c","l","u","t","t","e","r">>>>,
     duration |-> 30],
    [keywords |-> <<<<"r","e","a","d">>, <<"b","o","o","k">>, <<"a","r","t","i","c","l","e">>, <<"p","a","p","e","r">>>>,
     duration |-> 30],
    [keywords |-> <<<<"t","e","s","t">>, <<"t","e","s","t","i","n","g">>, <<"q","a">>, <<"v","e","r","i","f","y">>>>,
     duration |-> 40],
    [keywords |-> <<<<"d","e","p","l","o","y">>, <<"r","e","l","e","a","s","e">>, <<"p","u","b","l","i","s","h">>, <<"l","a","u","n","c","h">>>>,
     duration |-> 30]
  >>

\* "Estimated based on task keywords (heuristic method)"
KeywordReasoning ==
  PyStr(<<"E","s","t","i","m","a","t","e","d"," ">>
        \o <<"b","a","s","e","d"," ">>
        \o <<"o","n"," ">>
        \o <<"t","a","s","k"," ">>
        \o <<"k","e","y","w","o","r","d","s"," ">>
        \o <<"(","h","e","u","r","i","s","t","i","c"," ">>
        \o <<"m","e","t","h","o","d",")">>)

\* "General estimate based on task description length"
LengthReasoning ==
  PyStr(<<"G","e","n","e","r","a","l"," ">>
        \o <<"e","s","t","i","m","a","t","e"," ">>
        \o <<"b","a","s","e","d"," ">>
        \o <<"o","n"," ">>
        \o <<"t","a","s","k"," ">>
        \o <<"d","e","s","c","r","i","p","t","i","o","n"," ">>
        \o <<"l","e","n","g","t","h">>)

\* any(kw in description_lower for kw in keywords)
any_keyword(keywords, description_lower) ==
  \E k \in 1..Len(keywords) : contains(keywords[k], description_lower)

\* a loop that keeps going after a match: the last matching rule wins
RECURSIVE last_match(_, _)
last_match(i, description_lower) ==
  IF i > Len(patterns) THEN 0
  ELSE LET later == last_match(i + 1, description_lower)
       IN  IF later # 0 THEN later
           ELSE IF any_keyword(patterns[i].keywords, description_lower) THEN i
           ELSE 0

\* the for loop over patterns: the index of the rule whose body runs, 0 when
\* the loop falls through
RECURSIVE first_match(_, _)
first_match(i, description_lower) ==
  IF i > Len(patterns) THEN 0
  ELSE IF any_keyword(patterns[i].keywords, description_lower) THEN i
  ELSE first_match(i + 1, description_lower)

\* the constructor of the response schema, called with validated values
DurationEstimateResponse(d, c, r) ==
  [estimated_duration |-> d, unit |-> "minutes", confidence |-> c,
   reasoning |-> r]

\* the variance of line 119 without its cap
variance_uncapped(word_count) == word_count * 2

\* line 119: min(word_count * 2, 15)
variance_of(word_count) == py_min(word_count * 2, 15)

\* the estimate of line 130 without its floor
base_duration_no_floor(word_count) == py_min(word_count * 8, 90)

\* line 130: max(15, min(word_count * 8, 90))
base_duration_of(word_count) == py_max(15, py_min(word_count * 8, 90))

\* a heuristic that looks at the state of the call: less confident once a
\* request has been sent
estimate_duration_heuristic_stateful(description) ==
  LET description_lower == lower(description)
      rule == first_match(1, description_lower)
      word_count == word_count_of(description)
  IN  IF rule # 0
      THEN DurationEstimateResponse(
             patterns[rule].duration + variance_of(word_count),
             PyFloat(IF requests > 0 THEN 4 ELSE 6), KeywordReasoning)
      ELSE DurationEstimateResponse(
             base_duration_of(word_count),
             PyFloat(IF requests > 0 THEN 4 ELSE 5), LengthReasoning)

estimate_duration_heuristic(description) ==
  LET description_lower == lower(description)
      rule == first_match(1, description_lower)
      word_count == word_count_of(description)
  IN  IF rule # 0
      THEN LET variance == variance_of(word_count)
               final_duration == patterns[rule].duration + variance
           IN  DurationEstimateResponse(final_duration, PyFloat(6),
                                        KeywordReasoning)
      ELSE LET base_duration == base_duration_of(word_count)
           IN  DurationEstimateResponse(base_duration, PyFloat(5),
                                        LengthReasoning)

(***************************************************************************)
(* int(x) and float(x) on the values json.loads can produce.               *)
(***************************************************************************)
IsDigit(c) == \E i \in 1..Len(Digits) : Digits[i] = c
DigitValue(c) == (CHOOSE i \in 1..Len(Digits) : Digits[i] = c) - 1

\* a run of digits, single underscores allowed between digits
IsDigitRun(s) ==
  /\ s # <<>>
  /\ IsDigit(s[1]) /\ IsDigit(s[Len(s)])
  /\ \A i \in 1..Len(s) : IsDigit(s[i]) \/ s[i] = "_"
  /\ \A i \in 1..(Len(s) - 1) : ~(s[i] = "_" /\ s[i+1] = "_")

RECURSIVE DigitRunValue(_)
DigitRunValue(s) ==
  IF s = <<>> THEN 0
  ELSE LET front == SubSeq(s, 1, Len(s) - 1)
       IN  IF s[Len(s)] = "_" THEN DigitRunValue(front)
           ELSE DigitRunValue(front) * 10 + DigitValue(s[Len(s)])

HasSign(s) == s # <<>> /\ s[1] \in {"+", "-"}
SignOf(s) == IF s # <<>> /\ s[1] = "-" THEN -1 ELSE 1
Unsigned(s) == IF HasSign(s) THEN Tail(s) ELSE s

\* int("...")
int_of_str(s) ==
  LET body == Unsigned(strip(s))
  IN  IF IsDigitRun(body)
      THEN Ok(SignOf(strip(s)) * DigitRunValue(body))
      ELSE Raised("ValueError")

\* truncation toward zero of a number of tenths
Trunc(tenths) ==
  IF tenths >= 0 THEN tenths \div 10 ELSE -((-tenths) \div 10)

\* int(x)
py_int(x) ==
  CASE x.t = "int" -> Ok(x.n)
    [] x.t = "bool" -> Ok(IF x.b THEN 1 ELSE 0)
    [] x.t = "float" -> Ok(Trunc(x.tenths))
    [] x.t = "nan" -> Raised("ValueError")
    [] x.t = "inf" -> Raised("OverflowError")
    [] x.t = "str" -> int_of_str(x.s)
    [] OTHER -> Raised("TypeError")

\* float("..."): decimal literals without exponent, nan, inf and infinity;
\* digits after the first fractional one are below the resolution
float_of_str(s) ==
  LET body == Unsigned(lower(strip(s)))
      sign == SignOf(strip(s))
      dots == {i \in 1..Len(body) : body[i] = "."}
  IN  IF body = <<"n","a","n">> THEN Ok(PyNaN)
      ELSE IF body \in {<<"i","n","f">>, <<"i","n","f","i","n","i","t","y">>}
      THEN Ok(PyInf(sign))
      ELSE IF dots = {}
      THEN IF IsDigitRun(body)
           THEN Ok(PyFloat(sign * 10 * DigitRunValue(body)))
           ELSE Raised("ValueError")
      ELSE IF Cardinality(dots) > 1 THEN Raised("ValueError")
      ELSE LET dot == CHOOSE i \in dots : TRUE
               whole == SubSeq(body, 1, dot - 1)
               frac == SubSeq(body, dot + 1, Len(body))
           IN  IF /\ whole = <<>> \/ IsDigitRun(whole)
                  /\ frac = <<>> \/ IsDigitRun(frac)
                  /\ ~(whole = <<>> /\ frac = <<>>)
               THEN Ok(PyFloat(sign * (10 * DigitRunValue(whole)
                                 + (IF frac = <<>> THEN 0
                                    ELSE DigitValue(frac[1])))))
               ELSE Raised("ValueError")

\* float(x)
py_float(x) ==
  CASE x.t = "int" -> Ok(PyFloat(10 * x.n))
    [] x.t = "bool" -> Ok(PyFloat(IF x.b THEN 10 ELSE 0))
    [] IsFloat(x) -> Ok(x)
    [] x.t = "str" -> float_of_str(x.s)
    [] OTHER -> Raised("TypeError")

\* a < b on floats: every comparison with nan is false
float_lt(a, b) ==
  CASE a.t = "nan" \/ b.t = "nan" -> FALSE
    [] a.t = "inf" /\ b.t = "inf" -> a.sign < b.sign
    [] a.t = "inf" -> a.sign < 0
    [] b.t = "inf" -> b.sign > 0
    [] OTHER -> a.tenths < b.tenths

\* min(a, b) and max(a, b) of Python on floats
float_min(a, b) == IF float_lt(b, a) THEN b ELSE a
float_max(a, b) == IF float_lt(a, b) THEN b ELSE a

(***************************************************************************)
(* The external chat-completion call and what it can deliver.              *)
(***************************************************************************)
\* message.content: None, or a text; a text denotes a JSON value or nothing
NotJson == [t |-> "text", denotes |-> [t |-> "nothing"]]
JsonText(v) == [t |-> "text", denotes |-> v]

JsonObject(d, c, r) ==
  [t |-> "dict", estimated_duration |-> d, confidence |-> c, reasoning |-> r]

\* a loader that turns text it cannot parse into an empty object
json_loads_lenient(content) ==
  IF content.t # "text" THEN Raised("TypeError")
  ELSE IF content.denotes.t = "nothing"
  THEN Ok(JsonObject(Missing, Missing, Missing))
  ELSE Ok(content.denotes)

\* json.loads(content)
json_loads(content) ==
  IF content.t # "text" THEN Raised("TypeError")
  ELSE IF content.denotes.t = "nothing" THEN Raised("JSONDecodeError")
  ELSE Ok(content.denotes)

\* result.get(key, default)
dict_get(value, default) == IF value = Missing THEN default ELSE value

\* exception classes derived from Exception; asyncio.CancelledError derives
\* from BaseException
ExceptionClasses ==
  {"APIConnectionError", "APITimeoutError", "AuthenticationError",
   "RateLimitError", "OpenAIError", "IndexError", "TypeError",
   "JSONDecodeError", "AttributeError", "ValueError", "OverflowError",
   "ValidationError"}

\* a handler written as `except ValueError`
handler_catches_value_error(exc) == exc \in {"ValueError", "JSONDecodeError"}

\* except Exception
handler_catches(exc) == exc \in ExceptionClasses

\* validation done by DurationEstimateResponse(...) on construction:
\* estimated_duration: int, confidence: float with ge=0 and le=1,
\* reasoning: Optional[str]
validate_response(duration, confidence, reasoning) ==
  IF /\ confidence.t = "float"
     /\ confidence.tenths >= 0 /\ confidence.tenths <= 10
     /\ reasoning.t \in {"str", "null"}
  THEN Ok(DurationEstimateResponse(duration, confidence, reasoning))
  ELSE Raised("ValidationError")

\* the clamp of line 71 without its upper limit
clamp_duration_no_upper(n) == py_max(5, n)

\* line 71: max(5, min(480, n))
clamp_duration(n) == py_max(5, py_min(480, n))

\* the clamp of line 72 with min and max exchanged
clamp_confidence_swapped(x) ==
  float_min(PyFloat(0), float_max(PyFloat(10), x))

\* line 72: max(0.0, min(1.0, x))
clamp_confidence(x) == float_max(PyFloat(0), float_min(PyFloat(10), x))

\* the outcome of the awaited request: an exception, or a response whose
\* choices carry a message content
RequestRaises(exc) == [kind |-> "raise", exc |-> exc]
Response(choices) == [kind |-> "response", choices |-> choices]
Choice(content) == [content |-> content]

\* the try block from the return of the awaited request to the return of
\* the response
model_estimate(delivered) ==
  IF delivered.kind = "raise" THEN Raised(delivered.exc)
  ELSE IF Len(delivered.choices) = 0 THEN Raised("IndexError")
  ELSE
    LET content == delivered.choices[1].content
        loaded == json_loads(content)
    IN  IF ~loaded.ok THEN loaded
        ELSE IF loaded.v.t # "dict" THEN Raised("AttributeError")
        ELSE
          LET as_int == py_int(dict_get(loaded.v.estimated_duration, PyInt(30)))
              as_float == py_float(dict_get(loaded.v.confidence, PyFloat(7)))
          IN  IF ~as_int.ok THEN as_int
              ELSE IF ~as_float.ok THEN as_float
              ELSE
                LET duration == clamp_duration(as_int.v)
                    confidence == clamp_confidence(as_float.v)
                    reasoning == dict_get(loaded.v.reasoning, PyStr(<<>>))
                IN  validate_response(duration, confidence, reasoning)

\* a test written as `settings.OPENAI_API_KEY is None`
no_api_key_is_none(key) == key = PyNone

\* not settings.OPENAI_API_KEY
no_api_key(key) == key = PyNone \/ key = PyStr(<<>>)

(***************************************************************************)
(* Inputs: descriptions passed by the callers, values of the setting and   *)
(* outcomes of the external request.                                       *)
(***************************************************************************)
Keywords ==
  UNION {{patterns[i].keywords[k] : k \in 1..Len(patterns[i].keywords)} :
           i \in 1..Len(patterns)}

\* the empty text, words that are no keyword, words that embed a keyword,
\* mixed case and blanks
OtherFragments ==
  { <<>>,
    <<"f","o","o">>,
    <<"r","e","c","a","l","l">>,
    <<"t","h","r","e","a","d">>,
    <<"M","e","e","t","i","n","g">>,
    <<"C","A","L","L">>,
    <<"R","e","s","e","a","r","c","h">>,
    <<" ">>,
    <<"\t","\n">> }

Fragments == Keywords \cup OtherFragments

Separators == { <<>>, <<" ">> }

\* n filler words, each preceded by a blank
RECURSIVE Padding(_)
Padding(n) == IF n = 0 THEN <<>> ELSE <<" ","x">> \o Padding(n - 1)

Describe(a, sep, b, n) == a \o sep \o b \o Padding(n)

\* two fragments, glued or separated, alone and followed by MaxPad filler
\* words; one fragment followed by up to MaxPad filler words and by LongPad
\* of them
Descriptions ==
  {Describe(a, sep, b, n) :
     a \in Fragments, sep \in Separators, b \in Fragments, n \in {0, MaxPad}}
    \cup {Describe(a, <<>>, <<>>, n) :
            a \in Fragments, n \in (0..MaxPad) \cup {LongPad}}

\* one fragment, alone and followed by MaxPad filler words
EstimatorDescriptions ==
  {Describe(a, <<>>, <<>>, n) : a \in Fragments, n \in {0, MaxPad}}

\* a few words used below
Meeting == <<"m","e","e","t","i","n","g">>
Research == <<"r","e","s","e","a","r","c","h">>
Call == <<"c","a","l","l">>
Foo == <<"f","o","o">>

\* the descriptions of a caller that calls again and again
HistoryDescriptions ==
  {Describe(a, <<>>, <<>>, n) :
     a \in {<<>>, Foo, Call, <<"C","A","L","L">>}, n \in {0, MaxPad}}

\* settings.OPENAI_API_KEY: unset, empty, set
ApiKeys == {PyNone, PyStr(<<>>), PyStr(<<"s","k","-","1">>)}

DurationValues ==
  { Missing, PyNone, PyList, PyBool(TRUE), PyNaN, PyInf(1),
    PyInt(-3), PyInt(0), PyInt(4), PyInt(5), PyInt(30), PyInt(480),
    PyInt(481), PyInt(1000),
    PyFloat(49), PyFloat(455),
    PyStr(<<"4","5">>), PyStr(<<" ","-","7","\n">>),
    PyStr(<<"4","5",".","5">>), PyStr(<<"a","b","c">>) }

ConfidenceValues ==
  { Missing, PyNone, PyList, PyBool(TRUE), PyNaN, PyInf(1), PyInf(-1),
    PyInt(0), PyInt(1), PyInt(2),
    PyFloat(-5), PyFloat(0), PyFloat(7), PyFloat(10), PyFloat(15),
    PyStr(<<"0",".","5">>), PyStr(<<"h","i","g","h">>) }

ReasoningValues ==
  { Missing, PyNone, PyList, PyInt(42), PyStr(<<>>),
    PyStr(<<"T","y","p","i","c","a","l"," ","s","y","n","c">>) }

Contents ==
  {PyNone, NotJson, JsonText(PyList), JsonText(PyInt(30))}
    \cup {JsonText(JsonObject(d, c, r)) :
            d \in DurationValues, c \in ConfidenceValues, r \in ReasoningValues}

ApiErrors ==
  {"APIConnectionError", "APITimeoutError", "AuthenticationError",
   "RateLimitError"}

Outcomes ==
  {RequestRaises(exc) : exc \in ApiErrors}
    \cup {Response(<<>>)}
    \cup {Response(<<Choice(c)>>) : c \in Contents}

\* the outcomes met by a caller that calls again and again: failures of each
\* stage and two answers
HistoryOutcomes ==
  { RequestRaises("APITimeoutError"),
    Response(<<>>),
    Response(<<Choice(NotJson)>>),
    Response(<<Choice(JsonText(JsonObject(PyStr(<<"a","b","c">>), PyFloat(7),
                                          PyNone)))>>),
    Response(<<Choice(JsonText(JsonObject(PyInt(1000), PyFloat(15),
                                          PyStr(<<>>))))>>),
    Response(<<Choice(JsonText(JsonObject(PyInt(30), PyFloat(7),
                                          PyStr(<<>>))))>>) }

\* what can go wrong in AsyncOpenAI(api_key=...)
ClientErrors == {"OpenAIError", "TypeError"}

(***************************************************************************)
(* Initial state.                                                          *)
(***************************************************************************)
NoResult == [t |-> "none"]
NoOutcome == [kind |-> "none"]
NoSample == [t |-> "none"]
NoTask == [t |-> "none"]
NoRegistration ==
  [pc |-> "idle", email |-> "none", status |-> 0, detail |-> "none"]
NoRequest == [handler |-> "none"]
NoResponse == [handler |-> "none"]
TaskIds == 1..MaxTasks

\* a call that has not started
IdleCall ==
  [task_description |-> <<>>, pc |-> "idle", result |-> NoResult,
   path |-> "none", error |-> "none", requests |-> 0, outcome |-> NoOutcome]

Init ==
  /\ OPENAI_API_KEY \in ApiKeys
  /\ task_description = <<>>
  /\ pc = "idle"
  /\ result = NoResult
  /\ path = "none"
  /\ error = "none"
  /\ requests = 0
  /\ outcome = NoOutcome
  /\ seen = NoSample
  /\ failures = 0
  /\ parked = [i \in 1..MaxParked |-> IdleCall]
  /\ tasks = [id \in TaskIds |-> NoTask]
  /\ history = [id \in TaskIds |-> <<>>]
  /\ next_task_id = 1
  /\ request = NoRequest
  /\ response = NoResponse
  /\ users = <<>>
  /\ registrations = [r \in 1..MaxRegistrations |-> NoRegistration]

(***************************************************************************)
(* estimate_duration_with_llm                                              *)
(***************************************************************************)
\* a fallback that reads the description from a place shared by the calls,
\* where the first suspended call has written its own
finish_reads_shared_description(d, attempt) ==
  IF attempt.ok
  THEN /\ pc' = "returned"
       /\ result' = attempt.v
       /\ path' = "model"
       /\ error' = "none"
  ELSE IF handler_catches(attempt.exc)
  THEN /\ pc' = "returned"
       /\ result' = estimate_duration_heuristic(
                       IF parked[1].pc # "idle"
                       THEN parked[1].task_description ELSE d)
       /\ path' = "fallback"
       /\ error' = attempt.exc
  ELSE /\ pc' = "raised"
       /\ result' = NoResult
       /\ path' = "none"
       /\ error' = attempt.exc

\* the end of the try statement: the attempt returns its response, or the
\* handler returns the heuristic estimate, or the exception leaves the call
finish(d, attempt) ==
  IF attempt.ok
  THEN /\ pc' = "returned"
       /\ result' = attempt.v
       /\ path' = "model"
       /\ error' = "none"
  ELSE IF handler_catches(attempt.exc)
  THEN /\ pc' = "returned"
       /\ result' = estimate_duration_heuristic(d)
       /\ path' = "fallback"
       /\ error' = attempt.exc
  ELSE /\ pc' = "raised"
       /\ result' = NoResult
       /\ path' = "none"
       /\ error' = attempt.exc

\* lines 49-51: no credential, the heuristic answers
call_without_key(D) ==
  /\ pc = "idle"
  /\ no_api_key(OPENAI_API_KEY)
  /\ \E d \in D :
       /\ task_description' = d
       /\ result' = estimate_duration_heuristic(d)
  /\ pc' = "returned"
  /\ path' = "no_key"
  /\ UNCHANGED <<OPENAI_API_KEY, error, requests, outcome>>

\* line 54 raises
call_client_fails(D) ==
  /\ pc = "idle"
  /\ ~no_api_key(OPENAI_API_KEY)
  /\ \E d \in D, exc \in ClientErrors :
       /\ task_description' = d
       /\ finish(d, Raised(exc))
  /\ UNCHANGED <<OPENAI_API_KEY, requests, outcome>>

\* a call that skips the model once an earlier call has failed
call_skips_model_after_failure(D) ==
  /\ pc = "idle"
  /\ ~no_api_key(OPENAI_API_KEY)
  /\ \E d \in D :
       /\ task_description' = d
       /\ IF failures > 0
          THEN /\ result' = estimate_duration_heuristic(d)
               /\ path' = "fallback"
               /\ pc' = "returned"
               /\ requests' = requests
          ELSE /\ requests' = requests + 1
               /\ pc' = "awaiting"
               /\ UNCHANGED <<result, path>>
  /\ UNCHANGED <<OPENAI_API_KEY, error, outcome>>

\* lines 54-56: the request is sent and the call waits for it
call_sends_request(D) ==
  /\ pc = "idle"
  /\ ~no_api_key(OPENAI_API_KEY)
  /\ \E d \in D : task_description' = d
  /\ requests' = requests + 1
  /\ pc' = "awaiting"
  /\ UNCHANGED <<OPENAI_API_KEY, result, path, error, outcome>>

\* a call that sends the request again after a failure
request_completes_retrying(O) ==
  /\ pc = "awaiting"
  /\ \E o \in O :
       /\ outcome' = o
       /\ finish(task_description, model_estimate(o))
       /\ requests' = IF model_estimate(o).ok THEN requests ELSE requests + 1
  /\ UNCHANGED <<OPENAI_API_KEY, task_description>>

\* lines 56-84: the request completes and the call runs to its end
request_completes(O) ==
  /\ pc = "awaiting"
  /\ \E o \in O :
       /\ outcome' = o
       /\ finish(task_description, model_estimate(o))
  /\ UNCHANGED <<OPENAI_API_KEY, task_description, requests>>

\* the framework cancels the call while it waits at line 56
call_cancelled ==
  /\ pc = "awaiting"
  /\ outcome' = RequestRaises("CancelledError")
  /\ finish(task_description, model_estimate(RequestRaises("CancelledError")))
  /\ UNCHANGED <<OPENAI_API_KEY, task_description, requests>>

(***************************************************************************)
(* One call of the estimator, over the estimator's descriptions and every  *)
(* outcome of the request.                                                 *)
(***************************************************************************)
\* nothing else runs beside the call
alone == UNCHANGED <<seen, failures, parked, api_vars>>

CallWithoutKey == call_without_key(EstimatorDescriptions) /\ alone

CallClientFails == call_client_fails(EstimatorDescriptions) /\ alone

CallSendsRequest ==
  call_sends_request(EstimatorDescriptions) /\ alone

RequestCompletes == request_completes(Outcomes) /\ alone

Cancel == call_cancelled /\ alone

Next ==
  \/ CallWithoutKey
  \/ CallClientFails
  \/ CallSendsRequest
  \/ RequestCompletes
  \/ Cancel

Spec == Init /\ [][Next]_vars

(***************************************************************************)
(* A caller that calls the estimator again and again.  After a step that   *)
(* ran the heuristic, `seen` may keep the description and the estimate of  *)
(* that run.                                                               *)
(***************************************************************************)
\* the heuristic ran in this step
heuristic_ran == pc' = "returned" /\ path' \in {"no_key", "fallback"}

remember ==
  /\ \/ seen' = seen
     \/ /\ heuristic_ran
        /\ seen' = [description |-> task_description', estimate |-> result']
  /\ failures' = IF pc' = "returned" /\ path' = "fallback"
                    /\ failures < MaxFailures
                 THEN failures + 1 ELSE failures
  /\ UNCHANGED <<parked, api_vars>>

AgainWithoutKey == call_without_key(HistoryDescriptions) /\ remember

AgainClientFails == call_client_fails(HistoryDescriptions) /\ remember

AgainSendsRequest == call_sends_request(HistoryDescriptions) /\ remember

AgainRequestCompletes == request_completes(HistoryOutcomes) /\ remember

AgainCancel == call_cancelled /\ remember

\* the call is over: its frame is gone and the next call starts afresh
call_ends ==
  /\ pc \in {"returned", "raised"}
  /\ pc' = "idle"
  /\ result' = NoResult
  /\ path' = "none"
  /\ error' = "none"
  /\ requests' = 0
  /\ outcome' = NoOutcome
  /\ UNCHANGED <<OPENAI_API_KEY, task_description>>

\* the call is over and the caller is free to call again
NextCall == call_ends /\ UNCHANGED <<seen, failures, parked, api_vars>>

NextHistory ==
  \/ AgainWithoutKey
  \/ AgainClientFails
  \/ AgainSendsRequest
  \/ AgainRequestCompletes
  \/ AgainCancel
  \/ NextCall

SpecHistory == Init /\ [][NextHistory]_vars

(***************************************************************************)
(* The heuristic on its own, applied to every description.                 *)
(***************************************************************************)
InitHeuristic ==
  /\ OPENAI_API_KEY = PyNone
  /\ task_description \in Descriptions
  /\ pc = "idle"
  /\ result = NoResult
  /\ path = "none"
  /\ error = "none"
  /\ requests = 0
  /\ outcome = NoOutcome
  /\ seen = NoSample
  /\ failures = 0
  /\ parked = [i \in 1..MaxParked |-> IdleCall]
  /\ tasks = [id \in TaskIds |-> NoTask]
  /\ history = [id \in TaskIds |-> <<>>]
  /\ next_task_id = 1
  /\ request = NoRequest
  /\ response = NoResponse
  /\ users = <<>>
  /\ registrations = [r \in 1..MaxRegistrations |-> NoRegistration]

HeuristicCall ==
  /\ pc = "idle"
  /\ result' = estimate_duration_heuristic(task_description)
  /\ pc' = "returned"
  /\ path' = "heuristic"
  /\ UNCHANGED <<OPENAI_API_KEY, task_description, error, requests, outcome,
                 seen, failures, parked, api_vars>>

NextHeuristic == HeuristicCall

SpecHeuristic == InitHeuristic /\ [][NextHeuristic]_vars

(***************************************************************************)
(* Several calls of the estimator in one event loop: one runs, the others  *)
(* are suspended, and the loop passes control at the await.                *)
(***************************************************************************)
ConcurrentDescriptions == {Foo, Call}

\* the request fails, the model answers within and beyond the range
ConcurrentOutcomes ==
  { RequestRaises("APITimeoutError"),
    Response(<<Choice(JsonText(JsonObject(PyInt(1000), PyFloat(15),
                                          PyStr(<<>>))))>>),
    Response(<<Choice(JsonText(JsonObject(PyInt(30), PyFloat(7),
                                          PyStr(<<>>))))>>) }

\* the frame of the running call
RunningCall ==
  [task_description |-> task_description, pc |-> pc, result |-> result,
   path |-> path, error |-> error, requests |-> requests,
   outcome |-> outcome]

\* the event loop suspends the running call and resumes call i
switch(i) ==
  /\ parked[i] # RunningCall
  /\ parked' = [parked EXCEPT ![i] = RunningCall]
  /\ task_description' = parked[i].task_description
  /\ pc' = parked[i].pc
  /\ result' = parked[i].result
  /\ path' = parked[i].path
  /\ error' = parked[i].error
  /\ requests' = parked[i].requests
  /\ outcome' = parked[i].outcome
  /\ UNCHANGED <<OPENAI_API_KEY, seen, failures, api_vars>>

Switch == \E i \in 1..MaxParked : switch(i)

ConcurrentWithoutKey == call_without_key(ConcurrentDescriptions) /\ alone

ConcurrentClientFails == call_client_fails(ConcurrentDescriptions) /\ alone

ConcurrentSendsRequest == call_sends_request(ConcurrentDescriptions) /\ alone

ConcurrentRequestCompletes == request_completes(ConcurrentOutcomes) /\ alone

ConcurrentCancel == call_cancelled /\ alone

NextConcurrent ==
  \/ ConcurrentWithoutKey
  \/ ConcurrentClientFails
  \/ ConcurrentSendsRequest
  \/ ConcurrentRequestCompletes
  \/ ConcurrentCancel
  \/ Switch

SpecConcurrent == Init /\ [][NextConcurrent]_vars

(***************************************************************************)
(* The task API: request schemas, the rows of table tasks and the session  *)
(* of one request.                                                         *)
(***************************************************************************)
\* the users behind get_current_user
Users == {"u1", "u2"}

\* n characters without a blank
Filler(n) == [i \in 1..n |-> "x"]

\* DurationEstimateRequest: task_description is a str of 1 to 1000 characters
valid_DurationEstimateRequest(task_description_in) ==
  Len(task_description_in) >= 1 /\ Len(task_description_in) <= 1000

valid_manual_duration_any_int(v) == v.t \in {"null", "int"}

\* manual_duration of TaskCreate and TaskUpdate: None or an int of 5 to 480
valid_manual_duration(v) ==
  v.t = "null" \/ (v.t = "int" /\ v.n >= 5 /\ v.n <= 480)

\* TaskCreate: task_name is a str of 1 to 500 characters, description is None
\* or a str of any length
valid_TaskCreate(task_data) ==
  /\ Len(task_data.task_name) >= 1
  /\ Len(task_data.task_name) <= 500
  /\ task_data.description.t \in {"null", "str"}
  /\ valid_manual_duration(task_data.manual_duration)

TaskCreate(task_name, description, manual_duration) ==
  [task_name |-> task_name, description |-> description,
   manual_duration |-> manual_duration]

\* bool(v) of an Optional[str]
truthy_str(v) == v.t = "str" /\ Len(v.s) > 0

description_for_estimate_name_only(task_data) == task_data.task_name

\* create_task, lines 39-41
description_for_estimate(task_data) ==
  IF truthy_str(task_data.description)
  THEN task_data.task_name \o <<" ", "-", " ">> \o task_data.description.s
  ELSE task_data.task_name

\* the columns of a row of tasks that the handlers read or write, with the
\* defaults of the model class for those create_task leaves out
Task(user_id, task_data, estimated_duration) ==
  [user_id |-> user_id,
   task_name |-> PyStr(task_data.task_name),
   description |-> task_data.description,
   estimated_duration |-> PyInt(estimated_duration),
   manual_duration |-> task_data.manual_duration,
   is_scheduled |-> PyBool(FALSE),
   scheduled_start_time |-> PyNone,
   is_completed |-> PyBool(FALSE),
   completed_at |-> PyNone]

\* bool(v) of an Optional[int]
truthy_int(v) == v.t = "int" /\ v.n # 0

\* Task.effective_duration, lines 56-59: manual_duration or
\* estimated_duration or 30
effective_duration(task) ==
  IF truthy_int(task.manual_duration) THEN task.manual_duration.n
  ELSE IF truthy_int(task.estimated_duration) THEN task.estimated_duration.n
  ELSE 30

NoBody == [t |-> "none"]

\* an HTTP response, with the body of the request it answers; listed holds
\* the ids of the tasks of a list response; status 0 stands for a request
\* that got no answer
Answer(handler, user, task_id, status, detail, listed, sent) ==
  [handler |-> handler, user |-> user, task_id |-> task_id,
   status |-> status, detail |-> detail, listed |-> listed, sent |-> sent]

\* the request is refused by its schema before the handler runs
rejected(handler, user) ==
  Answer(handler, user, 0, 422, "Unprocessable Entity", {}, NoBody)

\* the handler was left by an exception that is no HTTPException
aborted(handler, user) == Answer(handler, user, 0, 0, "none", {}, NoBody)

\* HTTPException(status_code=404, detail="Task not found")
not_found(handler, user, task_id) ==
  Answer(handler, user, task_id, 404, "Task not found", {}, NoBody)

(***************************************************************************)
(* POST /tasks: create_task                                                *)
(***************************************************************************)
\* the body fails TaskCreate
create_task_rejected(Data) ==
  /\ request = NoRequest
  /\ \E u \in Users, task_data \in Data :
       /\ ~valid_TaskCreate(task_data)
       /\ response' = rejected("create_task", u)
  /\ UNCHANGED <<tasks, history, next_task_id, request>>

\* lines 30-37: the body passed TaskCreate and the handler runs
create_task_calls(Data) ==
  /\ request = NoRequest
  /\ next_task_id <= MaxTasks
  /\ \E u \in Users, task_data \in Data :
       /\ valid_TaskCreate(task_data)
       /\ request' = [handler |-> "create_task", user |-> u,
                      data |-> task_data]
  /\ UNCHANGED <<tasks, history, next_task_id, response>>

\* lines 38-43: the description that the handler, in the same step, passes to
\* the estimator
create_task_argument == {description_for_estimate(request'.data)}

\* lines 45-68: the estimator returned; the row and its history entry are
\* flushed, the row is read back and the transaction of get_db commits
create_task_returns ==
  /\ request.handler = "create_task"
  /\ pc = "returned"
  /\ LET id == next_task_id
         task == Task(request.user, request.data, result.estimated_duration)
     IN  /\ tasks' = [tasks EXCEPT ![id] = task]
         /\ history' = [history EXCEPT ![id] = <<"created">>]
         /\ next_task_id' = id + 1
         /\ response' = Answer("create_task", request.user, id, 201, "Created",
                               {}, NoBody)
  /\ request' = NoRequest

\* the estimator was left by an exception: nothing is stored
create_task_aborted ==
  /\ request.handler = "create_task"
  /\ pc = "raised"
  /\ response' = aborted("create_task", request.user)
  /\ request' = NoRequest
  /\ UNCHANGED <<tasks, history, next_task_id>>

(***************************************************************************)
(* POST /tasks/estimate-duration: estimate_duration                        *)
(***************************************************************************)
estimate_duration_rejected(D) ==
  /\ request = NoRequest
  /\ \E u \in Users, d \in D :
       /\ ~valid_DurationEstimateRequest(d)
       /\ response' = rejected("estimate_duration", u)
  /\ UNCHANGED <<tasks, history, next_task_id, request>>

\* lines 324-327: the body passed DurationEstimateRequest and the handler
\* runs
estimate_duration_calls(D) ==
  /\ request = NoRequest
  /\ \E u \in Users, d \in D :
       /\ valid_DurationEstimateRequest(d)
       /\ request' = [handler |-> "estimate_duration", user |-> u,
                      data |-> d]
  /\ UNCHANGED <<tasks, history, next_task_id, response>>

\* line 335: the description that the handler, in the same step, passes to
\* the estimator
estimate_duration_argument == {request'.data}

\* the estimate is the body of the response
estimate_duration_returns ==
  /\ request.handler = "estimate_duration"
  /\ pc = "returned"
  /\ response' = Answer("estimate_duration", request.user, 0, 200, "OK", {},
                        NoBody)
  /\ request' = NoRequest
  /\ UNCHANGED <<tasks, history, next_task_id>>

estimate_duration_aborted ==
  /\ request.handler = "estimate_duration"
  /\ pc = "raised"
  /\ response' = aborted("estimate_duration", request.user)
  /\ request' = NoRequest
  /\ UNCHANGED <<tasks, history, next_task_id>>

(***************************************************************************)
(* One request to POST /tasks or to POST /tasks/estimate-duration, from    *)
(* the schema to the response, with the estimator in between.              *)
(***************************************************************************)
\* names at both ends of the schema's limits
CreateNames == {<<>>, Call, Filler(500), Filler(501)}

\* no description, the empty one, a word and a long text
CreateDescriptions ==
  {PyNone, PyStr(<<>>), PyStr(Research), PyStr(Filler(498))}

ManualDurations == {PyNone, PyInt(4), PyInt(60), PyInt(481)}

CreateBodies ==
  {TaskCreate(n, d, m) :
     n \in CreateNames, d \in CreateDescriptions, m \in ManualDurations}

\* descriptions at both ends of the schema's limits
EndpointDescriptions == {<<>>, Call, Filler(1000), Filler(1001)}

\* the external request fails, answers no JSON, answers within and beyond the
\* range
ApiOutcomes ==
  { RequestRaises("APITimeoutError"),
    Response(<<Choice(NotJson)>>),
    Response(<<Choice(JsonText(JsonObject(PyInt(1000), PyFloat(15),
                                          PyStr(<<>>))))>>),
    Response(<<Choice(JsonText(JsonObject(PyInt(30), PyFloat(7),
                                          PyStr(<<>>))))>>) }

call_vars ==
  <<OPENAI_API_KEY, task_description, pc, result, path, error, requests,
    outcome>>

\* no other call of the estimator runs beside the request's, and nobody
\* registers
one_call == UNCHANGED <<seen, failures, parked, auth_vars>>

\* nothing was answered yet
first == response = NoResponse

FirstCreateRejected ==
  first /\ create_task_rejected(CreateBodies) /\ UNCHANGED call_vars
    /\ one_call

FirstCreateWithoutKey ==
  /\ first /\ create_task_calls(CreateBodies)
  /\ call_without_key(create_task_argument)
  /\ one_call

FirstCreateClientFails ==
  /\ first /\ create_task_calls(CreateBodies)
  /\ call_client_fails(create_task_argument)
  /\ one_call

FirstCreateSendsRequest ==
  /\ first /\ create_task_calls(CreateBodies)
  /\ call_sends_request(create_task_argument)
  /\ one_call

FirstEstimateRejected ==
  first /\ estimate_duration_rejected(EndpointDescriptions)
    /\ UNCHANGED call_vars /\ one_call

FirstEstimateWithoutKey ==
  /\ first /\ estimate_duration_calls(EndpointDescriptions)
  /\ call_without_key(estimate_duration_argument)
  /\ one_call

FirstEstimateClientFails ==
  /\ first /\ estimate_duration_calls(EndpointDescriptions)
  /\ call_client_fails(estimate_duration_argument)
  /\ one_call

FirstEstimateSendsRequest ==
  /\ first /\ estimate_duration_calls(EndpointDescriptions)
  /\ call_sends_request(estimate_duration_argument)
  /\ one_call

\* the estimator's request completes while the handler waits
PendingRequestCompletes ==
  /\ request # NoRequest
  /\ request_completes(ApiOutcomes)
  /\ one_call
  /\ UNCHANGED api_vars

PendingCancel ==
  /\ request # NoRequest
  /\ call_cancelled
  /\ one_call
  /\ UNCHANGED api_vars

CreateTaskReturns == create_task_returns /\ UNCHANGED call_vars /\ one_call

CreateTaskAborted == create_task_aborted /\ UNCHANGED call_vars /\ one_call

EstimateDurationReturns ==
  estimate_duration_returns /\ UNCHANGED call_vars /\ one_call

EstimateDurationAborted ==
  estimate_duration_aborted /\ UNCHANGED call_vars /\ one_call

NextCreate ==
  \/ FirstCreateRejected
  \/ FirstCreateWithoutKey
  \/ FirstCreateClientFails
  \/ FirstCreateSendsRequest
  \/ FirstEstimateRejected
  \/ FirstEstimateWithoutKey
  \/ FirstEstimateClientFails
  \/ FirstEstimateSendsRequest
  \/ PendingRequestCompletes
  \/ PendingCancel
  \/ CreateTaskReturns
  \/ CreateTaskAborted
  \/ EstimateDurationReturns
  \/ EstimateDurationAborted

SpecCreate == Init /\ [][NextCreate]_vars

(***************************************************************************)
(* The handlers that work on a stored task.  Each runs in a session of its *)
(* own, which get_db commits when the handler returns.                     *)
(***************************************************************************)
PyDatetime(n) == [t |-> "datetime", at |-> n]

\* the instants of the requests
Times == {PyDatetime(1), PyDatetime(2)}

\* a lookup by id alone
find_task_of_any_user(user, task_id) == tasks[task_id] # NoTask

\* select(Task).where(and_(Task.id == task_id, Task.user_id ==
\* current_user.id)) yields a row
find_task(user, task_id) ==
  tasks[task_id] # NoTask /\ tasks[task_id].user_id = user

\* a refresh that leaves the assignments on the object, to be written by the
\* commit
session_refresh_keeps_assignments(row, object) == object

\* Session.refresh(task) on an object whose assignments were not flushed:
\* the attributes are expired first, which drops the assignments, and are
\* then loaded from the row
session_refresh(row, object) == row

\* one more row of task_history
log(rows, action) == Append(rows, action)

\* TaskUpdate, with Missing for a field the body does not set
TaskUpdate(task_name, manual_duration, is_completed) ==
  [task_name |-> task_name, manual_duration |-> manual_duration,
   is_completed |-> is_completed]

\* TaskUpdate: every field is optional; task_name has 1 to 500 characters,
\* manual_duration is within 5 to 480, is_completed is a bool
valid_TaskUpdate(task_data) ==
  /\ \/ task_data.task_name.t \in {"missing", "null"}
     \/ /\ task_data.task_name.t = "str"
        /\ Len(task_data.task_name.s) >= 1
        /\ Len(task_data.task_name.s) <= 500
  /\ \/ task_data.manual_duration.t = "missing"
     \/ valid_manual_duration(task_data.manual_duration)
  /\ task_data.is_completed.t \in {"missing", "null", "bool"}

\* the keys of task_data.model_dump(exclude_unset=True)
update_data(task_data) ==
  {field \in DOMAIN task_data : task_data[field].t # "missing"}

\* lines 170-173: the fields whose value differs from the attribute
changed_fields(task, task_data) ==
  {field \in update_data(task_data) : task[field] # task_data[field]}

\* lines 170-173: the object after the loop of setattr
setattrs(task, task_data) ==
  [field \in DOMAIN task |->
     IF field \in update_data(task_data) THEN task_data[field]
     ELSE task[field]]

\* lines 176-177: the completion time is to be set
completes(task, task_data) ==
  task_data.is_completed = PyBool(TRUE) /\ task.completed_at.t = "null"

\* lines 176-180: the object after the handling of completion
handle_completion(task, task_data, now) ==
  IF completes(task, task_data) THEN [task EXCEPT !.completed_at = now]
  ELSE IF task_data.is_completed = PyBool(FALSE)
  THEN [task EXCEPT !.completed_at = PyNone]
  ELSE task

\* lines 167-178: the keys of changes
changes_of(task, task_data) ==
  changed_fields(task, task_data)
    \cup (IF completes(setattrs(task, task_data), task_data)
          THEN {"completed_at"} ELSE {})

\* GET /tasks: list_tasks
list_tasks(Filters) ==
  /\ \E u \in Users, is_scheduled \in Filters, is_completed \in Filters :
       response' =
         Answer("list_tasks", u, 0, 200, "OK",
                {id \in TaskIds :
                   /\ tasks[id] # NoTask
                   /\ tasks[id].user_id = u
                   /\ is_scheduled.t = "null"
                        \/ tasks[id].is_scheduled = is_scheduled
                   /\ is_completed.t = "null"
                        \/ tasks[id].is_completed = is_completed},
                NoBody)
  /\ UNCHANGED <<tasks, history, next_task_id, request>>

\* GET /tasks/{task_id}: get_task
get_task ==
  /\ \E u \in Users, id \in TaskIds :
       response' = IF find_task(u, id)
                   THEN Answer("get_task", u, id, 200, "OK", {}, NoBody)
                   ELSE not_found("get_task", u, id)
  /\ UNCHANGED <<tasks, history, next_task_id, request>>

\* PATCH /tasks/{task_id}: the body fails TaskUpdate
update_task_rejected(Data) ==
  /\ \E u \in Users, task_data \in Data :
       /\ ~valid_TaskUpdate(task_data)
       /\ response' = rejected("update_task", u)
  /\ UNCHANGED <<tasks, history, next_task_id, request>>

\* PATCH /tasks/{task_id}: update_task
update_task(Data) ==
  /\ \E u \in Users, id \in TaskIds, task_data \in Data, now \in Times :
       /\ valid_TaskUpdate(task_data)
       /\ IF ~find_task(u, id)
          THEN /\ response' = not_found("update_task", u, id)
               /\ UNCHANGED <<tasks, history>>
          ELSE LET object == handle_completion(setattrs(tasks[id], task_data),
                                               task_data, now)
                   changes == changes_of(tasks[id], task_data)
               IN  /\ changes # {} => Len(history[id]) < MaxHistory
                   /\ tasks' = [tasks EXCEPT
                                  ![id] = session_refresh(@, object)]
                   /\ history' = IF changes # {}
                                 THEN [history EXCEPT ![id] = log(@, "updated")]
                                 ELSE history
                   /\ response' = Answer("update_task", u, id, 200, "OK", {},
                                         task_data)
  /\ UNCHANGED <<next_task_id, request>>

\* DELETE /tasks/{task_id}: delete_task; the rows of task_history go with
\* the task
delete_task ==
  /\ \E u \in Users, id \in TaskIds :
       IF ~find_task(u, id)
       THEN /\ response' = not_found("delete_task", u, id)
            /\ UNCHANGED <<tasks, history>>
       ELSE /\ tasks' = [tasks EXCEPT ![id] = NoTask]
            /\ history' = [history EXCEPT ![id] = <<>>]
            /\ response' = Answer("delete_task", u, id, 204, "No Content", {},
                                  NoBody)
  /\ UNCHANGED <<next_task_id, request>>

\* POST /tasks/{task_id}/schedule: schedule_task
schedule_task ==
  /\ \E u \in Users, id \in TaskIds, scheduled_start_time \in Times :
       IF ~find_task(u, id)
       THEN /\ response' = not_found("schedule_task", u, id)
            /\ UNCHANGED <<tasks, history>>
       ELSE LET object ==
                  [tasks[id] EXCEPT
                     !.is_scheduled = PyBool(TRUE),
                     !.scheduled_start_time = scheduled_start_time]
            IN  /\ Len(history[id]) < MaxHistory
                /\ tasks' = [tasks EXCEPT ![id] = session_refresh(@, object)]
                /\ history' = [history EXCEPT ![id] = log(@, "scheduled")]
                /\ response' = Answer("schedule_task", u, id, 200, "OK", {},
                                      scheduled_start_time)
  /\ UNCHANGED <<next_task_id, request>>

\* POST /tasks/{task_id}/unschedule: unschedule_task
unschedule_task ==
  /\ \E u \in Users, id \in TaskIds :
       IF ~find_task(u, id)
       THEN /\ response' = not_found("unschedule_task", u, id)
            /\ UNCHANGED <<tasks, history>>
       ELSE LET object ==
                  [tasks[id] EXCEPT
                     !.is_scheduled = PyBool(FALSE),
                     !.scheduled_start_time = PyNone]
            IN  /\ Len(history[id]) < MaxHistory
                /\ tasks' = [tasks EXCEPT ![id] = session_refresh(@, object)]
                /\ history' = [history EXCEPT ![id] = log(@, "unscheduled")]
                /\ response' = Answer("unschedule_task", u, id, 200, "OK", {},
                                      NoBody)
  /\ UNCHANGED <<next_task_id, request>>

(***************************************************************************)
(* The task API in use: tasks are created, read, updated, scheduled,       *)
(* unscheduled and deleted by two users, in any order.                     *)
(***************************************************************************)
\* a valid body and an invalid one
TaskBodies ==
  {TaskCreate(Call, PyNone, PyNone), TaskCreate(<<>>, PyNone, PyNone)}

\* the external request fails or the model answers
TaskOutcomes ==
  { RequestRaises("APITimeoutError"),
    Response(<<Choice(JsonText(JsonObject(PyInt(30), PyFloat(7),
                                          PyStr(<<>>))))>>) }

\* is_completed true, false, null and left out, with and without another
\* field, and a body that fails the schema
UpdateBodies ==
  {TaskUpdate(Missing, Missing, c) :
     c \in {Missing, PyNone, PyBool(TRUE), PyBool(FALSE)}}
    \cup {TaskUpdate(Missing, PyInt(60), PyBool(TRUE)),
          TaskUpdate(Missing, PyInt(4), Missing)}

\* the values of the query parameters is_scheduled and is_completed
ListFilters == {PyNone, PyBool(FALSE), PyBool(TRUE)}

\* the handler does not call the estimator
no_call == UNCHANGED call_vars /\ one_call

TaskCreateRejected == create_task_rejected(TaskBodies) /\ no_call

TaskCreateWithoutKey ==
  /\ create_task_calls(TaskBodies)
  /\ call_without_key(create_task_argument)
  /\ one_call

TaskCreateClientFails ==
  /\ create_task_calls(TaskBodies)
  /\ call_client_fails(create_task_argument)
  /\ one_call

TaskCreateSendsRequest ==
  /\ create_task_calls(TaskBodies)
  /\ call_sends_request(create_task_argument)
  /\ one_call

TaskRequestCompletes ==
  /\ request # NoRequest
  /\ request_completes(TaskOutcomes)
  /\ one_call
  /\ UNCHANGED api_vars

\* create_task returns and the estimator's call is over
TaskCreated == create_task_returns /\ call_ends /\ one_call

TaskNotCreated == create_task_aborted /\ call_ends /\ one_call

ListTasks == list_tasks(ListFilters) /\ no_call

GetTask == get_task /\ no_call

UpdateTaskRejected == update_task_rejected(UpdateBodies) /\ no_call

UpdateTask == update_task(UpdateBodies) /\ no_call

DeleteTask == delete_task /\ no_call

ScheduleTask == schedule_task /\ no_call

UnscheduleTask == unschedule_task /\ no_call

NextTasks ==
  \/ TaskCreateRejected
  \/ TaskCreateWithoutKey
  \/ TaskCreateClientFails
  \/ TaskCreateSendsRequest
  \/ TaskRequestCompletes
  \/ PendingCancel
  \/ TaskCreated
  \/ TaskNotCreated
  \/ ListTasks
  \/ GetTask
  \/ UpdateTaskRejected
  \/ UpdateTask
  \/ DeleteTask
  \/ ScheduleTask
  \/ UnscheduleTask

SpecTasks == Init /\ [][NextTasks]_vars

(***************************************************************************)
(* The durations of the tasks: tasks are created with and without a manual *)
(* duration, the model answers below, within and above the range of an     *)
(* estimate, and the manual duration is updated.                           *)
(***************************************************************************)
\* no manual duration, the least and the greatest the schema takes, and the
\* values next to them
DurationBodies ==
  {TaskCreate(Call, PyNone, m) :
     m \in {PyNone, PyInt(4), PyInt(5), PyInt(480), PyInt(481)}}

\* the model answers 1 minute, 200 minutes and 1000 minutes
DurationOutcomes ==
  {Response(<<Choice(JsonText(JsonObject(PyInt(n), PyFloat(7),
                                         PyStr(<<>>))))>>) :
     n \in {1, 200, 1000}}

\* manual_duration set, null, and out of the schema's range
DurationUpdates ==
  {TaskUpdate(Missing, m, Missing) :
     m \in {PyNone, PyInt(0), PyInt(5), PyInt(480), PyInt(481)}}

DurationCreateRejected == create_task_rejected(DurationBodies) /\ no_call

DurationCreateWithoutKey ==
  /\ create_task_calls(DurationBodies)
  /\ call_without_key(create_task_argument)
  /\ one_call

DurationCreateClientFails ==
  /\ create_task_calls(DurationBodies)
  /\ call_client_fails(create_task_argument)
  /\ one_call

DurationCreateSendsRequest ==
  /\ create_task_calls(DurationBodies)
  /\ call_sends_request(create_task_argument)
  /\ one_call

DurationRequestCompletes ==
  /\ request # NoRequest
  /\ request_completes(DurationOutcomes)
  /\ one_call
  /\ UNCHANGED api_vars

DurationUpdateRejected == update_task_rejected(DurationUpdates) /\ no_call

DurationUpdate == update_task(DurationUpdates) /\ no_call

NextDurations ==
  \/ DurationCreateRejected
  \/ DurationCreateWithoutKey
  \/ DurationCreateClientFails
  \/ DurationCreateSendsRequest
  \/ DurationRequestCompletes
  \/ PendingCancel
  \/ TaskCreated
  \/ TaskNotCreated
  \/ DurationUpdateRejected
  \/ DurationUpdate

SpecDurations == Init /\ [][NextDurations]_vars

(***************************************************************************)
(* POST /auth/register: each call has a session and a transaction of its   *)
(* own, which get_db commits when the handler returns.  The calls yield at *)
(* every await, so their statements interleave.                            *)
(***************************************************************************)
Emails == {"ann@example.org", "bob@example.org"}

\* select(User).where(User.email == email) yields a row: the statement sees
\* the rows that are committed
get_user_by_email(email) ==
  \E i \in 1..Len(users) : users[i].email = email

\* the answer of call r
answered(r, email, status, detail) ==
  [registrations EXCEPT
     ![r] = [pc |-> "done", email |-> email, status |-> status,
             detail |-> detail]]

\* register, lines 42-47: the email is looked up, and the call ends in 400
\* when it is found
register_looks_up(r) ==
  /\ registrations[r].pc = "idle"
  /\ \E email \in Emails :
       registrations' =
         IF get_user_by_email(email)
         THEN answered(r, email, 400, "Email already registered")
         ELSE [registrations EXCEPT
                 ![r] = [pc |-> "checked", email |-> email, status |-> 0,
                         detail |-> "none"]]
  /\ UNCHANGED users

\* the unique index on users.email: the INSERT waits while another
\* transaction holds a row with the same email that is not yet committed
insert_waits(r) ==
  \E o \in 1..MaxRegistrations :
    /\ o # r
    /\ registrations[o].pc = "inserted"
    /\ registrations[o].email = registrations[r].email

\* create_user, lines 139-146: the flush sends the INSERT; the unique index
\* refuses an email that a committed row has, the IntegrityError leaves
\* create_user and register, get_db rolls back and the call ends in 500
register_inserts(r) ==
  /\ registrations[r].pc = "checked"
  /\ ~insert_waits(r)
  /\ registrations' =
       IF get_user_by_email(registrations[r].email)
       THEN answered(r, registrations[r].email, 500, "Internal Server Error")
       ELSE [registrations EXCEPT ![r].pc = "inserted"]
  /\ UNCHANGED users

\* create_user, lines 147-148, register, lines 53-62, and the commit of
\* get_db
register_returns(r) ==
  /\ registrations[r].pc = "inserted"
  /\ users' = Append(users, [email |-> registrations[r].email])
  /\ registrations' = answered(r, registrations[r].email, 201, "Created")

\* nothing but registration goes on
only_registration ==
  UNCHANGED <<call_vars, seen, failures, parked, tasks, history,
              next_task_id, request, response>>

RegisterLooksUp ==
  (\E r \in 1..MaxRegistrations : register_looks_up(r)) /\ only_registration

RegisterInserts ==
  (\E r \in 1..MaxRegistrations : register_inserts(r)) /\ only_registration

RegisterReturns ==
  (\E r \in 1..MaxRegistrations : register_returns(r)) /\ only_registration

NextRegister ==
  \/ RegisterLooksUp
  \/ RegisterInserts
  \/ RegisterReturns

SpecRegister == Init /\ [][NextRegister]_vars

(***************************************************************************)
(* Properties of estimate_duration_with_llm.                               *)
(***************************************************************************)
\* what the awaited request delivered, when it delivered a message content
GotContent == outcome.kind = "response" /\ Len(outcome.choices) > 0
Content == outcome.choices[1].content

\* the content is a text that json.loads accepts
GotJson == GotContent /\ Content.t = "text" /\ Content.denotes.t # "nothing"

\* the content is the text of a JSON object
GotDict == GotJson /\ Content.denotes.t = "dict"
Dict == Content.denotes

\* C1: whatever the description and whatever the outcome of the external
\* call (no credential, success with any values, exception, unparseable or
\* malformed response), a returned estimate has estimated_duration in
\* [5, 480] and confidence in [0.0, 1.0].
EstimateInRange ==
  pc = "returned" =>
    /\ result.estimated_duration \in 5..480
    /\ result.confidence.t = "float"
    /\ result.confidence.tenths \in 0..10

\* the model answered 1000 minutes with confidence 1.5 and the call returned
\* the model-backed estimate
OutOfRangeAnswerReturned ==
  /\ pc = "returned"
  /\ path = "model"
  /\ GotDict
  /\ Dict.estimated_duration = PyInt(1000)
  /\ Dict.confidence = PyFloat(15)

\* the failures of the model-backed path: client construction, the network
\* call, empty choices, JSON parsing, field conversion, response validation
ModelPathFailures ==
  {"OpenAIError", "TypeError", "APIConnectionError", "APITimeoutError",
   "AuthenticationError", "RateLimitError", "IndexError", "JSONDecodeError",
   "AttributeError", "ValueError", "OverflowError", "ValidationError"}

\* C2: a failure inside the model-backed path never reaches the caller: the
\* call ends by returning a fully populated estimate.
FailureNeverPropagates ==
  error \in ModelPathFailures =>
    /\ pc = "returned"
    /\ result.estimated_duration \in Int
    /\ result.unit = "minutes"
    /\ result.confidence.t = "float"
    /\ result.reasoning.t = "str"

\* the response object was rejected by its validation and the call returned
ValidationFailureReturned ==
  /\ pc = "returned"
  /\ error = "ValidationError"
  /\ GotDict
  /\ Dict.reasoning = PyInt(42)

\* C3: with a credential, when the external call raises or delivers content
\* that is not JSON, the returned estimate is exactly the heuristic's estimate
\* for the same description: same duration, confidence and reasoning, and no
\* further field.
FailureEqualsHeuristic ==
  ( /\ pc = "returned"
    /\ OPENAI_API_KEY \notin {PyNone, PyStr(<<>>)}
    /\ \/ outcome.kind = "raise"
       \/ GotContent /\ ~GotJson )
  => result = estimate_duration_heuristic(task_description)

\* the model delivered text that is not JSON for a description with a keyword
UnparseableContentReturned ==
  /\ pc = "returned"
  /\ OPENAI_API_KEY \notin {PyNone, PyStr(<<>>)}
  /\ GotContent
  /\ Content = NotJson
  /\ result.confidence = PyFloat(6)

\* C4: without a credential (unset or empty) no request is ever sent to the
\* external model and the estimate returned is exactly the heuristic's.
NoKeyNoRequest ==
  OPENAI_API_KEY \in {PyNone, PyStr(<<>>)} =>
    /\ pc # "awaiting"
    /\ requests = 0
    /\ outcome = NoOutcome
    /\ pc = "returned" =>
         /\ path = "no_key"
         /\ result = estimate_duration_heuristic(task_description)

\* a call returned while the credential is the empty string
EmptyKeyReturned ==
  /\ OPENAI_API_KEY = PyStr(<<>>)
  /\ pc = "returned"
  /\ result.confidence = PyFloat(6)

\* a field of the delivered object that is absent, or that int() (float())
\* refuses
DurationMissingOrInvalid ==
  \/ Dict.estimated_duration = Missing
  \/ ~py_int(Dict.estimated_duration).ok

ConfidenceMissingOrInvalid ==
  \/ Dict.confidence = Missing
  \/ ~py_float(Dict.confidence).ok

\* C5: with a credential, when the model delivers a JSON object in which
\* estimated_duration or confidence is missing or invalid, the call falls back
\* to the heuristic: the estimate returned is the heuristic's, not one built
\* from default values.
MissingFieldFallsBack ==
  ( /\ pc = "returned"
    /\ GotDict
    /\ DurationMissingOrInvalid \/ ConfidenceMissingOrInvalid )
  => /\ path = "fallback"
     /\ result = estimate_duration_heuristic(task_description)

\* x limited to the interval [lo, hi]
Clamp(lo, hi, x) == IF x < lo THEN lo ELSE IF x > hi THEN hi ELSE x

\* the delivered object is well formed: an integer duration, a numeric
\* confidence and a reasoning that is a string, null or absent
GotWellFormedDict ==
  /\ GotDict
  /\ Dict.estimated_duration.t = "int"
  /\ Dict.confidence.t \in {"int", "float"}
  /\ Dict.reasoning.t \in {"str", "null", "missing"}

\* the confidence of the delivered object, in tenths
DictConfidenceTenths ==
  IF Dict.confidence.t = "int" THEN 10 * Dict.confidence.n
  ELSE Dict.confidence.tenths

\* C6: on a successful model response with integer estimated_duration d and
\* numeric confidence c the call returns the model-backed estimate, with
\* estimated_duration = max(5, min(480, d)) and
\* confidence = max(0.0, min(1.0, c)): 1000 gives 480, less than 5 gives 5,
\* 1.5 gives 1.0 and a negative confidence gives 0.0.
ModelAnswerClamped ==
  (pc = "returned" /\ GotWellFormedDict) =>
    /\ path = "model"
    /\ result.estimated_duration = Clamp(5, 480, Dict.estimated_duration.n)
    /\ result.confidence = PyFloat(Clamp(0, 10, DictConfidenceTenths))
    /\ Dict.estimated_duration.n = 1000 => result.estimated_duration = 480
    /\ Dict.estimated_duration.n < 5 => result.estimated_duration = 5
    /\ DictConfidenceTenths = 15 => result.confidence = PyFloat(10)
    /\ DictConfidenceTenths < 0 => result.confidence = PyFloat(0)

\* the model answered -3 minutes with confidence -0.5 and the call returned
LowAnswerReturned ==
  /\ pc = "returned"
  /\ GotWellFormedDict
  /\ Dict.estimated_duration = PyInt(-3)
  /\ Dict.confidence = PyFloat(-5)
  /\ result.estimated_duration = 5

(***************************************************************************)
(* Properties of estimate_duration_heuristic.                              *)
(***************************************************************************)
\* the rules as the specification lists them, in its order
RulesInSpecOrder ==
  <<
    [keywords |-> <<<<"m","e","e","t","i","n","g">>, <<"c","a","l","l">>, <<"s","t","a","n","d","u","p">>, <<"s","y","n","c">>, <<"i","n","t","e","r","v","i","e","w">>>>,
     duration |-> 30],
    [keywords |-> <<<<"r","e","v","i","e","w">>, <<"c","h","e","c","k">>, <<"a","p","p","r","o","v","e">>, <<"f","e","e","d","b","a","c","k">>>>,
     duration |-> 20],
    [keywords |-> <<<<"e","m","a","i","l">>, <<"r","e","p","l","y">>, <<"r","e","s","p","o","n","d">>, <<"m","e","s","s","a","g","e">>>>,
     duration |-> 15],
    [keywords |-> <<<<"q","u","i","c","k">>, <<"b","r","i","e","f">>, <<"s","h","o","r","t">>, <<"s","i","m","p","l","e">>>>,
     duration |-> 10],
    [keywords |-> <<<<"w","r","i","t","e">>, <<"d","r","a","f","t">>, <<"d","o","c","u","m","e","n","t">>, <<"r","e","p","o","r","t">>, <<"p","r","o","p","o","s","a","l">>>>,
     duration |-> 60],
    [keywords |-> <<<<"r","e","s","e","a","r","c","h">>, <<"i","n","v","e","s","t","i","g","a","t","e">>, <<"a","n","a","l","y","z","e">>, <<"e","x","p","l","o","r","e">>>>,
     duration |-> 90],
    [keywords |-> <<<<"d","e","s","i","g","n">>, <<"c","r","e","a","t","e">>, <<"b","u","i","l","d">>, <<"d","e","v","e","l","o","p">>, <<"i","m","p","l","e","m","e","n","t">>>>,
     duration |-> 120],
    [keywords |-> <<<<"d","e","e","p">>, <<"t","h","o","r","o","u","g","h">>, <<"c","o","m","p","r","e","h","e","n","s","i","v","e">>, <<"d","e","t","a","i","l","e","d">>>>,
     duration |-> 90],
    [keywords |-> <<<<"w","o","r","k","o","u","t">>, <<"g","y","m">>, <<"e","x","e","r","c","i","s","e">>, <<"r","u","n">>, <<"y","o","g","a">>>>,
     duration |-> 45],
    [keywords |-> <<<<"l","u","n","c","h">>, <<"d","i","n","n","e","r">>, <<"b","r","e","a","k","f","a","s","t">>, <<"b","r","e","a","k">>>>,
     duration |-> 30],
    [keywords |-> <<<<"l","e","a","r","n">>, <<"s","t","u","d","y">>, <<"c","o","u","r","s","e">>, <<"t","r","a","i","n","i","n","g">>, <<"t","u","t","o","r","i","a","l">>>>,
     duration |-> 60],
    [keywords |-> <<<<"p","l","a","n">>, <<"s","c","h","e","d","u","l","e">>, <<"o","r","g","a","n","i","z","e">>, <<"p","r","e","p","a","r","e">>>>,
     duration |-> 25],
    [keywords |-> <<<<"f","i","x">>, <<"d","e","b","u","g">>, <<"t","r","o","u","b","l","e","s","h","o","o","t">>, <<"r","e","s","o","l","v","e">>>>,
     duration |-> 45],
    [keywords |-> <<<<"c","l","e","a","n">>, <<"t","i","d","y">>, <<"o","r","g","a","n","i","z","e">>, <<"d","e","c","l","u","t","t","e","r">>>>,
     duration |-> 30],
    [keywords |-> <<<<"r","e","a","d">>, <<"b","o","o","k">>, <<"a","r","t","i","c","l","e">>, <<"p","a","p","e","r">>>>,
     duration |-> 30],
    [keywords |-> <<<<"t","e","s","t">>, <<"t","e","s","t","i","n","g">>, <<"q","a">>, <<"v","e","r","i","f","y">>>>,
     duration |-> 40],
    [keywords |-> <<<<"d","e","p","l","o","y">>, <<"r","e","l","e","a","s","e">>, <<"p","u","b","l","i","s","h">>, <<"l","a","u","n","c","h">>>>,
     duration |-> 30]
  >>

\* rule i of the specification has a keyword occurring in the lower-cased
\* description
RuleMatches(i, description_lower) ==
  \E k \in 1..Len(RulesInSpecOrder[i].keywords) :
    contains(RulesInSpecOrder[i].keywords[k], description_lower)

\* rule i matches and no rule listed before it does
IsEarliestMatch(i, description_lower) ==
  /\ RuleMatches(i, description_lower)
  /\ \A j \in 1..(i - 1) : ~RuleMatches(j, description_lower)

\* the number of words of a text, counted in one pass from left to right
RECURSIVE WordsFrom(_, _, _)
WordsFrom(s, i, inWord) ==
  IF i > Len(s) THEN 0
  ELSE IF s[i] \in Whitespace THEN WordsFrom(s, i + 1, FALSE)
  ELSE (IF inWord THEN 0 ELSE 1) + WordsFrom(s, i + 1, TRUE)

Words(s) == WordsFrom(s, 1, FALSE)

\* C7: there are 17 rules, tried in the order the specification lists, and
\* the earliest rule with a keyword in the description decides the base
\* duration; a description with both "meeting" and "research" gets base 30.
EarliestRuleDecidesFor(description_lower, words, duration) ==
  \A i \in 1..Len(RulesInSpecOrder) :
    IsEarliestMatch(i, description_lower) =>
      /\ duration = RulesInSpecOrder[i].duration
                      + (IF 2 * words < 15 THEN 2 * words ELSE 15)
      /\ ( /\ contains(Meeting, description_lower)
           /\ contains(Research, description_lower) )
         => RulesInSpecOrder[i].duration = 30

EarliestRuleDecides ==
  /\ Len(patterns) = 17
  /\ pc = "returned" =>
       EarliestRuleDecidesFor(lower(task_description),
                              Words(task_description),
                              result.estimated_duration)

\* "research meeting": the later keyword belongs to the earlier rule
ResearchMeetingEstimated ==
  /\ pc = "returned"
  /\ task_description = Research \o <<" ">> \o Meeting
  /\ result.estimated_duration = 34

\* C8: when some rule matches, the estimate is the first matching rule's base
\* plus min(2 * word_count, 15), with confidence 0.6 and the keyword
\* reasoning; "call" gives 32 and ten words containing "call" give 45.
KeywordEstimateFor(rule, words) ==
  rule # 0 =>
    /\ result.estimated_duration
         = patterns[rule].duration
             + (IF 2 * words < 15 THEN 2 * words ELSE 15)
    /\ result.confidence = PyFloat(6)
    /\ result.reasoning = KeywordReasoning
    /\ task_description = Call => result.estimated_duration = 32
    /\ (words = 10 /\ patterns[rule].duration = 30)
         => result.estimated_duration = 45

KeywordEstimate ==
  pc = "returned" =>
    KeywordEstimateFor(first_match(1, lower(task_description)),
                       Words(task_description))

\* "call" followed by nine filler words
TenWordCallEstimated ==
  /\ pc = "returned"
  /\ task_description = Call \o Padding(9)
  /\ result.estimated_duration = 45

\* C9: when no rule matches, the estimate is max(15, min(8 * word_count, 90))
\* with confidence 0.5 and the length reasoning: 5 words give 40, 50 words
\* give 90, no word or one word gives 15.
LengthEstimateFor(rule, words) ==
  rule = 0 =>
    /\ result.estimated_duration = Clamp(15, 90, 8 * words)
    /\ result.confidence = PyFloat(5)
    /\ result.reasoning = LengthReasoning
    /\ words = 5 => result.estimated_duration = 40
    /\ words = 50 => result.estimated_duration = 90
    /\ words \in {0, 1} => result.estimated_duration = 15

LengthEstimate ==
  pc = "returned" =>
    LengthEstimateFor(first_match(1, lower(task_description)),
                      Words(task_description))

\* fifty words without a keyword
FiftyWordsEstimated ==
  /\ pc = "returned"
  /\ result.estimated_duration = 90
  /\ result.confidence = PyFloat(5)
  /\ Words(task_description) = 50

\* a run of the heuristic that finds an earlier run on the same description
SameDescriptionAgain ==
  /\ pc = "returned"
  /\ path \in {"no_key", "fallback"}
  /\ seen # NoSample
  /\ seen.description = task_description

\* the step ends a call with a run of the heuristic
HeuristicStep ==
  pc # "returned" /\ pc' = "returned" /\ path' \in {"no_key", "fallback"}

DescriptionWithinLimits ==
  pc # "idle" => Len(task_description) >= 1 /\ Len(task_description) <= 1000

(***************************************************************************)
(* Properties of the estimator across requests and calls.                  *)
(***************************************************************************)
\* the setting holds a credential
HasCredential == OPENAI_API_KEY.t = "str" /\ Len(OPENAI_API_KEY.s) > 0

CallOver == pc \in {"returned", "raised"}

\* C12 as stated: with a credential, a call that is over has issued exactly
\* one external request
ExactlyOneRequest == HasCredential /\ CallOver => requests = 1

\* C12: with a credential a call issues at most one external request: exactly
\* one once the client is constructed, whether the request succeeds or
\* fails, and none when the construction of the client fails; the request is
\* never sent again and the fallback sends none
OneRequestOnceClientBuilt ==
  /\ [](HasCredential =>
          /\ requests <= 1
          /\ pc = "awaiting" => requests = 1
          /\ CallOver /\ outcome # NoOutcome => requests = 1
          /\ CallOver /\ outcome = NoOutcome =>
               requests = 0 /\ error \in ClientErrors)
  /\ [][pc = "awaiting" => requests' = requests]_vars

FailedRequestFellBack ==
  /\ HasCredential
  /\ pc = "returned"
  /\ path = "fallback"
  /\ outcome.kind = "raise"
  /\ requests = 1

\* C13: no failure is remembered between calls: after any number of calls
\* that fell back, the next call with a credential sends its request to the
\* model first (unless the client cannot be constructed), and returns the
\* model-backed estimate when that attempt succeeds
NoFailureStateKept ==
  /\ [][failures > 0 /\ HasCredential /\ pc = "idle" /\ pc' # "idle" =>
          \/ pc' = "awaiting" /\ requests' = 1
          \/ error' \in ClientErrors]_vars
  /\ [](failures > 0 /\ HasCredential /\ pc = "returned" /\ GotWellFormedDict
          => /\ path = "model"
             /\ result.estimated_duration =
                  Clamp(5, 480, Dict.estimated_duration.n))

\* as many earlier calls fell back as the count holds, and this one
\* returned the model's answer
ModelAnswersAfterFailures ==
  /\ failures = MaxFailures
  /\ HasCredential
  /\ pc = "returned"
  /\ path = "model"

\* all calls in the event loop
Calls == {RunningCall} \cup {parked[i] : i \in 1..MaxParked}

\* C14: concurrent calls are independent: whatever the interleaving, two
\* calls that returned and had the same description and the same outcome of
\* their own request (with the one credential) returned the same result by
\* the same path, so nothing of another call enters a call's result
ConcurrentCallsIndependent ==
  \A a \in Calls, b \in Calls :
    (/\ a.pc = "returned"
     /\ b.pc = "returned"
     /\ a.task_description = b.task_description
     /\ a.outcome = b.outcome
     /\ a.error = b.error)
      => a.result = b.result /\ a.path = b.path

\* three calls overlapped: two with the same description fell back after the
\* same failure while a third with another description was under way
OverlappingCallsFellBack ==
  /\ pc = "returned"
  /\ path = "fallback"
  /\ \E i \in 1..MaxParked, j \in 1..MaxParked :
       /\ i # j
       /\ parked[i].pc = "returned"
       /\ parked[i].path = "fallback"
       /\ parked[i].task_description = task_description
       /\ parked[i].outcome = outcome
       /\ parked[j].pc # "idle"
       /\ parked[j].task_description # task_description

\* C15: on the model-backed path the returned reasoning is always a string:
\* the model's reasoning verbatim when the object carries one, the empty
\* string when the key is missing or carries no value
ReasoningVerbatimOrEmpty ==
  (pc = "returned" /\ path = "model") =>
    /\ result.reasoning.t = "str"
    /\ result.reasoning =
         IF Dict.reasoning.t = "str" THEN Dict.reasoning ELSE PyStr(<<>>)

\* the estimator is entered in this step
EstimatorInvoked == pc = "idle" /\ pc' # "idle"

\* "<task_name>" without a description or with the empty one,
\* "<task_name> - <description>" otherwise
NameDashDescription(task_name, description) ==
  IF description.t = "str" /\ description.s # <<>>
  THEN task_name \o <<" ", "-", " ">> \o description.s
  ELSE task_name

\* C16: task creation invokes the estimator exactly once, with "<task_name>"
\* when there is no description or an empty one and with
\* "<task_name> - <description>" otherwise, and the created task's
\* estimated_duration is that of the returned estimate, with and without a
\* manual_duration
CreateStoresEstimate ==
  /\ [][request.handler = "none" /\ request'.handler = "create_task" =>
          /\ EstimatorInvoked
          /\ task_description' =
               NameDashDescription(request'.data.task_name,
                                   request'.data.description)]_vars
  /\ [][request.handler = "create_task" => ~EstimatorInvoked]_vars
  /\ [](response.handler = "create_task" /\ response.status = 201 =>
          /\ pc = "returned"
          /\ tasks[response.task_id].estimated_duration =
               PyInt(result.estimated_duration)
          /\ task_description =
               NameDashDescription(tasks[response.task_id].task_name.s,
                                   tasks[response.task_id].description))

\* a task was created from a name, a description and a manual duration
DescribedTaskCreated ==
  /\ response.handler = "create_task"
  /\ response.status = 201
  /\ tasks[response.task_id].description = PyStr(Research)
  /\ tasks[response.task_id].manual_duration = PyInt(60)
  /\ tasks[response.task_id].estimated_duration # PyInt(60)

\* the characters of kw stand in s one after the other, from some position on
Occurs(kw, s) ==
  \E i \in 0..(Len(s) - Len(kw)) : \A j \in 1..Len(kw) : s[i + j] = kw[j]

\* some keyword of some rule occurs in the text
SomeKeywordOccurs(description_lower) ==
  \E i \in 1..Len(RulesInSpecOrder) :
    \E k \in 1..Len(RulesInSpecOrder[i].keywords) :
      Occurs(RulesInSpecOrder[i].keywords[k], description_lower)

\* C17: a rule matches exactly when one of its keywords occurs as a run of
\* adjacent characters of the lower-cased description, so matching ignores
\* case and word limits: "recall" (holding "call"), "thread" (holding
\* "read") and "CALL" take the keyword branch with confidence 0.6, and a
\* description without any keyword takes the length branch
SubstringMatchFor(description_lower) ==
  /\ result.confidence = PyFloat(6) <=> SomeKeywordOccurs(description_lower)
  /\ result.confidence # PyFloat(6) => result.reasoning = LengthReasoning
  /\ task_description \in {<<"r","e","c","a","l","l">>,
                           <<"t","h","r","e","a","d">>,
                           <<"C","A","L","L">>,
                           <<"M","e","e","t","i","n","g">>}
       => result.confidence = PyFloat(6) /\ result.reasoning = KeywordReasoning

SubstringMatch ==
  pc = "returned" => SubstringMatchFor(lower(task_description))

\* "thread" was estimated by the keyword branch
ThreadEstimated ==
  /\ pc = "returned"
  /\ task_description = <<"t","h","r","e","a","d">>
  /\ result.confidence = PyFloat(6)

\* the stored tasks
Stored == {id \in TaskIds : tasks[id] # NoTask}

\* C18: after any sequence of create_task and update_task calls, with
\* is_completed true, false, null or left out, a task's completed_at is
\* non-null exactly when its is_completed is true, and is_completed is
\* always a boolean
CompletionConsistent ==
  \A id \in Stored :
    /\ tasks[id].is_completed.t = "bool"
    /\ tasks[id].completed_at.t # "null"
         <=> tasks[id].is_completed = PyBool(TRUE)

\* the owner's update with is_completed null was answered
UpdatedWithNull ==
  /\ response.handler = "update_task"
  /\ response.status = 200
  /\ response.sent.is_completed = PyNone
  /\ history[response.task_id] = <<"created", "updated">>

\* C19: after any sequence of create_task, update_task, schedule_task and
\* unschedule_task calls, a task's is_scheduled is true exactly when its
\* scheduled_start_time is non-null: schedule_task sets both (true and the
\* requested time), unschedule_task clears both, create_task and update_task
\* change neither
ScheduleFlagsAgree ==
  /\ \A id \in Stored :
       /\ tasks[id].is_scheduled.t = "bool"
       /\ tasks[id].is_scheduled = PyBool(TRUE)
            <=> tasks[id].scheduled_start_time.t # "null"
  /\ (response.handler = "schedule_task" /\ response.status = 200) =>
       /\ tasks[response.task_id].is_scheduled = PyBool(TRUE)
       /\ tasks[response.task_id].scheduled_start_time = response.sent
  /\ (response.handler = "unschedule_task" /\ response.status = 200) =>
       /\ tasks[response.task_id].is_scheduled = PyBool(FALSE)
       /\ tasks[response.task_id].scheduled_start_time = PyNone
  /\ (response.handler = "create_task" /\ response.status = 201) =>
       /\ tasks[response.task_id].is_scheduled = PyBool(FALSE)
       /\ tasks[response.task_id].scheduled_start_time = PyNone

\* the handlers that take a task id
TaskHandlers ==
  {"get_task", "update_task", "delete_task", "schedule_task",
   "unschedule_task"}

\* in this step one of them answered a user who named the task of another
ForeignCall ==
  /\ response' # response
  /\ response'.handler \in TaskHandlers
  /\ response'.status # 422
  /\ tasks[response'.task_id] # NoTask
  /\ tasks[response'.task_id].user_id # response'.user

\* C20: tasks are kept apart by owner: get_task, update_task, delete_task,
\* schedule_task and unschedule_task called by a user with the id of a task
\* of another user end in 404 'Task not found' and leave the tasks and their
\* history as they were, and list_tasks returns only tasks of the caller
OwnerIsolation ==
  /\ [][ForeignCall =>
          /\ response'.status = 404
          /\ response'.detail = "Task not found"
          /\ tasks' = tasks
          /\ history' = history]_vars
  /\ [][(response' # response /\ response'.handler = "list_tasks") =>
          \A id \in response'.listed :
            tasks[id] # NoTask /\ tasks[id].user_id = response'.user]_vars

\* another user asked to delete a task that has history, and was refused
ForeignDeleteRefused ==
  /\ response.handler = "delete_task"
  /\ response.status = 404
  /\ tasks[response.task_id] # NoTask
  /\ tasks[response.task_id].user_id # response.user
  /\ Len(history[response.task_id]) > 1

(***************************************************************************)
(* Properties of registration.                                             *)
(***************************************************************************)
\* no two rows of users hold the same email
OneUserPerEmail ==
  \A i \in 1..Len(users), j \in 1..Len(users) :
    users[i].email = users[j].email => i = j

\* C21: registered emails are unique under any interleaving of register
\* calls: there is at most one user per email, and a register call that does
\* not create the user of its email ends in 400 'Email already registered',
\* also when two calls for the same email run concurrently
RegisteredEmailsUnique ==
  /\ OneUserPerEmail
  /\ \A r \in 1..MaxRegistrations :
       registrations[r].pc = "done" =>
         \/ registrations[r].status = 201
         \/ /\ registrations[r].status = 400
            /\ registrations[r].detail = "Email already registered"

(***************************************************************************)
(* Properties of the rule list.                                            *)
(***************************************************************************)
Organize == <<"o","r","g","a","n","i","z","e">>

\* rule i of the list has a keyword that stands in the text
RuleOccurs(i, description_lower) ==
  \E k \in 1..Len(RulesInSpecOrder[i].keywords) :
    Occurs(RulesInSpecOrder[i].keywords[k], description_lower)

\* the places of the plan/schedule/organize/prepare rule and of the
\* clean/tidy/organize/declutter rule in the list
PlanRule ==
  CHOOSE i \in 1..Len(RulesInSpecOrder) :
    RulesInSpecOrder[i].keywords[1] = <<"p","l","a","n">>

CleanRule ==
  CHOOSE i \in 1..Len(RulesInSpecOrder) :
    RulesInSpecOrder[i].keywords[1] = <<"c","l","e","a","n">>

\* C22: "organize" is a keyword of the plan/schedule rule (base 25) and of
\* the later clean/tidy rule (base 30), and the later one never decides: for
\* every description containing "organize" the base is that of the earliest
\* matching rule, which is the plan/schedule rule with 25 or a rule before it
OrganizeDecidedFor(description_lower, words) ==
  /\ PlanRule < CleanRule
  /\ RuleOccurs(PlanRule, Organize) /\ RulesInSpecOrder[PlanRule].duration = 25
  /\ RuleOccurs(CleanRule, Organize)
  /\ RulesInSpecOrder[CleanRule].duration = 30
  /\ Occurs(Organize, description_lower) =>
       \E i \in 1..PlanRule :
         /\ RuleOccurs(i, description_lower)
         /\ \A j \in 1..(i - 1) : ~RuleOccurs(j, description_lower)
         /\ result.estimated_duration
              = RulesInSpecOrder[i].duration
                  + (IF 2 * words < 15 THEN 2 * words ELSE 15)

OrganizeDecided ==
  pc = "returned" =>
    OrganizeDecidedFor(lower(task_description), Words(task_description))

\* "clean organize": both rules match and the estimate is 25 plus 4
CleanOrganizeEstimated ==
  /\ pc = "returned"
  /\ task_description = <<"c","l","e","a","n">> \o <<" ">> \o Organize
  /\ result.estimated_duration = 29

(***************************************************************************)
(* Properties of the durations of the stored tasks.                        *)
(***************************************************************************)
\* the range of a duration in minutes
InRange(n) == n >= 5 /\ n <= 480

\* C23: the effective duration of a task is its manual duration when one is
\* set, otherwise its estimated duration when one is set, otherwise 30, and
\* for every task that was created and updated through the API it lies
\* within 5 and 480
EffectiveDurationInRange ==
  \A id \in Stored :
    LET task == tasks[id]
        manual == task.manual_duration
        estimated == task.estimated_duration
    IN  /\ manual.t = "int" => effective_duration(task) = manual.n
        /\ manual.t = "null" /\ estimated.t = "int"
             => effective_duration(task) = estimated.n
        /\ manual.t = "null" /\ estimated.t = "null"
             => effective_duration(task) = 30
        /\ InRange(effective_duration(task))

\* a task with the greatest manual duration and an estimate that differs
\* from it was created, and an update of its manual duration was answered
ManualDurationInForce ==
  \E id \in Stored :
    /\ tasks[id].manual_duration = PyInt(480)
    /\ tasks[id].estimated_duration = PyInt(5)
    /\ effective_duration(tasks[id]) = 480
    /\ response # NoResponse
    /\ response.handler = "update_task"
    /\ response.status = 200
    /\ response.task_id = id

=========================================================================
